---- MODULE Spec2Model ----
(***************************************************************************)
(* Polygon-based wall derivation and wall movement of the floor-plan       *)
(* modeler (the valtio store with `rooms`, `selectedWallId`,               *)
(* `hoveredWallId`, `deriveWalls` and `actions`).                          *)
(*                                                                         *)
(* Lengths are integers in millimetres: the source works in metres with    *)
(* every coordinate a multiple of 0.1 m, so 4.5 m is 4500 and the          *)
(* tolerance literal 0.01 is 10.                                           *)
(***************************************************************************)
EXTENDS Integers, Sequences, FiniteSets, TLC

VARIABLES rooms, selectedWallId, hoveredWallId, last, moves

vars == <<rooms, selectedWallId, hoveredWallId, last, moves>>

\* ---------------------------------------------------------------- constants

EXTERIOR_MOVE_STEP == 300
INTERIOR_MOVE_STEP == 100
\* declared as the minimum room dimension; no function reads it
MIN_ROOM_SIZE == 600
\* the literal 0.01 used by every tolerance comparison
EPS == 10

\* ------------------------------------------------------------------- bounds

\* number of moveWall / moveSelectedWall calls explored from an initial store
MaxMoves == 1

\* -------------------------------------------------------------------- types

\* the id value null; ids are tuples, so null is a tuple as well
Null == <<"null">>

NoDirection == "none"

RoomOrder == <<"room1", "room2">>

RoomIds == {RoomOrder[i] : i \in 1..Len(RoomOrder)}

Directions == {"up", "down", "left", "right"}

Vertex(x, z) == [x |-> x, z |-> z]

Abs(n) == IF n < 0 THEN -n ELSE n

Min(a, b) == IF a <= b THEN a ELSE b

Max(a, b) == IF a >= b THEN a ELSE b

\* v.toFixed(4): the decimal string with four fractional digits, held as the
\* number of 0.0001 m units it denotes
toFixed4(v) == v * 10

\* ------------------------------------------------------------- seed L-shape

\* Room 2 with a fifth vertex at the inner corner (4.5, 6)
createPentagonRooms ==
  [room1 |-> [id |-> "room1", name |-> "Room 1",
              vertices |-> <<Vertex(0, 0), Vertex(4500, 0),
                             Vertex(4500, 6000), Vertex(0, 6000)>>],
   room2 |-> [id |-> "room2", name |-> "Room 2",
              vertices |-> <<Vertex(4500, 0), Vertex(9000, 0), Vertex(9000, 9000),
                             Vertex(4500, 9000), Vertex(4500, 6000)>>]]

createInitialRooms ==
  [room1 |-> [id |-> "room1", name |-> "Room 1",
              vertices |-> <<Vertex(0, 0), Vertex(4500, 0),
                             Vertex(4500, 6000), Vertex(0, 6000)>>],
   room2 |-> [id |-> "room2", name |-> "Room 2",
              vertices |-> <<Vertex(4500, 0), Vertex(9000, 0),
                             Vertex(9000, 9000), Vertex(4500, 9000)>>]]

\* --------------------------------------------------------- sequence helpers

\* vertices[(i + 1) % vertices.length], with 1-based indices
NextIdx(i, n) == (i % n) + 1

\* [...new Set(s)]: first occurrences, in order
RECURSIVE Unique(_)
Unique(s) ==
  IF s = <<>> THEN <<>>
  ELSE LET front == Unique(SubSeq(s, 1, Len(s) - 1))
           x == s[Len(s)]
       IN IF \E k \in 1..Len(front) : front[k] = x THEN front
          ELSE Append(front, x)

SeqToSet(s) == {s[k] : k \in 1..Len(s)}

\* Array.from(points).sort((a, b) => a - b)
RECURSIVE SortedPoints(_)
SortedPoints(S) ==
  IF S = {} THEN <<>>
  ELSE LET m == CHOOSE x \in S : \A y \in S : x <= y
       IN <<m>> \o SortedPoints(S \ {m})

\* ------------------------------------------------------- geometry utilities

\* the edges without the one that closes the polygon
getRoomEdgesOpen(room) ==
  [i \in 1..(Len(room.vertices) - 1) |->
     [start |-> room.vertices[i],
      end |-> room.vertices[i + 1],
      roomId |-> room.id]]

getRoomEdges(room) ==
  [i \in 1..Len(room.vertices) |->
     [start |-> room.vertices[i],
      end |-> room.vertices[NextIdx(i, Len(room.vertices))],
      roomId |-> room.id]]

normalizeEdge(start, end) ==
  LET isHorizontal == Abs(start.z - end.z) < EPS
  IN IF isHorizontal
     THEN IF start.x <= end.x
          THEN [start |-> start, end |-> end, orientation |-> "horizontal"]
          ELSE [start |-> end, end |-> start, orientation |-> "horizontal"]
     ELSE IF start.z <= end.z
          THEN [start |-> start, end |-> end, orientation |-> "vertical"]
          ELSE [start |-> end, end |-> start, orientation |-> "vertical"]

\* ------------------------------------------------------------- deriveWalls

\* the EdgeInfo pushed for one room edge
EdgeInfo(edge) ==
  LET normalized == normalizeEdge(edge.start, edge.end)
  IN IF normalized.orientation = "horizontal"
     THEN [roomId |-> edge.roomId,
           orientation |-> "horizontal",
           position |-> normalized.start.z,
           start |-> normalized.start.x,
           end |-> normalized.end.x,
           direction |-> IF edge.end.x > edge.start.x THEN 1 ELSE -1]
     ELSE [roomId |-> edge.roomId,
           orientation |-> "vertical",
           position |-> normalized.start.x,
           start |-> normalized.start.z,
           end |-> normalized.end.z,
           direction |-> IF edge.end.z > edge.start.z THEN 1 ELSE -1]

\* allEdges: every room in Object.values order, every edge in vertex order
RECURSIVE AllEdgesIn(_, _)
AllEdgesIn(rs, order) ==
  IF order = <<>> THEN <<>>
  ELSE LET edges == getRoomEdges(rs[order[1]])
       IN [i \in 1..Len(edges) |-> EdgeInfo(edges[i])] \o AllEdgesIn(rs, Tail(order))

allEdges(rs) == AllEdgesIn(rs, RoomOrder)

\* the edgeGroups map key `${orientation}-${position.toFixed(4)}`
GroupKey(edge) == <<edge.orientation, toFixed4(edge.position)>>

\* keys of edgeGroups in insertion order
GroupKeys(edges) == Unique([i \in 1..Len(edges) |-> GroupKey(edges[i])])

\* edgeGroups.get(key)
GroupOf(edges, key) == SelectSeq(edges, LAMBDA e : GroupKey(e) = key)

\* edge.start <= segStart + 0.01 && edge.end >= segEnd - 0.01
Covers(edge, segStart, segEnd) ==
  edge.start <= segStart + EPS /\ edge.end >= segEnd - EPS

\* room ids of the group's edges that contain the segment, by direction
DirectionEdges(edges, segStart, segEnd, direction) ==
  LET hit == SelectSeq(edges, LAMBDA e : Covers(e, segStart, segEnd)
                                          /\ e.direction = direction)
  IN [i \in 1..Len(hit) |-> hit[i].roomId]

\* the horizontal rule applied to both orientations
IsInteriorSameDirection(orientation, positiveOnly, negativeOnly) ==
  Len(positiveOnly) >= 2 \/ Len(negativeOnly) >= 2

\* the interior test on positiveOnly / negativeOnly
IsInterior(orientation, positiveOnly, negativeOnly) ==
  IF orientation = "vertical"
  THEN \E p \in 1..Len(positiveOnly) : \E n \in 1..Len(negativeOnly) :
         positiveOnly[p] # negativeOnly[n]
  ELSE Len(positiveOnly) >= 2 \/ Len(negativeOnly) >= 2

\* an id that names the line only: orientation and position, without the span
WallIdOfLine(orientation, position, segStart, segEnd) ==
  <<"wall", orientation, toFixed4(position), 0, 0>>

\* `wall-${orientation}-${position.toFixed(4)}-${segStart.toFixed(4)}-${segEnd.toFixed(4)}`
WallId(orientation, position, segStart, segEnd) ==
  <<"wall", orientation, toFixed4(position), toFixed4(segStart), toFixed4(segEnd)>>

\* the walls pushed for one sub-segment of one group: one wall or none
SegmentWalls(edges, segStart, segEnd) ==
  LET orientation == edges[1].orientation
      position == edges[1].position
      positiveEdges == DirectionEdges(edges, segStart, segEnd, 1)
      negativeEdges == DirectionEdges(edges, segStart, segEnd, -1)
      uniquePositive == Unique(positiveEdges)
      uniqueNegative == Unique(negativeEdges)
      positiveOnly == SelectSeq(uniquePositive,
                                LAMBDA r : r \notin SeqToSet(uniqueNegative))
      negativeOnly == SelectSeq(uniqueNegative,
                                LAMBDA r : r \notin SeqToSet(uniquePositive))
      isInterior == IsInterior(orientation, positiveOnly, negativeOnly)
      containingRooms == Unique(positiveEdges \o negativeEdges)
  IN IF Len(containingRooms) = 0 THEN <<>>
     ELSE << [id |-> WallId(orientation, position, segStart, segEnd),
              type |-> IF isInterior THEN "interior" ELSE "exterior",
              orientation |-> orientation,
              start |-> IF orientation = "horizontal"
                        THEN Vertex(segStart, position)
                        ELSE Vertex(position, segStart),
              end |-> IF orientation = "horizontal"
                      THEN Vertex(segEnd, position)
                      ELSE Vertex(position, segEnd),
              roomIds |-> containingRooms] >>

\* the walls of one group: one per pair of consecutive sorted points
RECURSIVE GroupWallsFrom(_, _, _)
GroupWallsFrom(edges, sortedPoints, i) ==
  IF i > Len(sortedPoints) - 1 THEN <<>>
  ELSE SegmentWalls(edges, sortedPoints[i], sortedPoints[i + 1])
       \o GroupWallsFrom(edges, sortedPoints, i + 1)

GroupWalls(edges) ==
  LET points == {edges[i].start : i \in 1..Len(edges)}
                \cup {edges[i].end : i \in 1..Len(edges)}
  IN GroupWallsFrom(edges, SortedPoints(points), 1)

RECURSIVE WallsFrom(_, _, _)
WallsFrom(edges, keys, k) ==
  IF k > Len(keys) THEN <<>>
  ELSE GroupWalls(GroupOf(edges, keys[k])) \o WallsFrom(edges, keys, k + 1)

deriveWalls(rs) ==
  LET edges == allEdges(rs)
  IN WallsFrom(edges, GroupKeys(edges), 1)

\* deriveWalls when Object.values(rooms) yields the rooms in `order`
deriveWallsIn(rs, order) ==
  LET edges == AllEdgesIn(rs, order)
  IN WallsFrom(edges, GroupKeys(edges), 1)

\* ----------------------------------------------------------------- moveWall

\* walls.find(w => w.id === wallId): the index of the first match, 0 if none
FindWall(walls, wallId) ==
  LET hits == {i \in 1..Len(walls) : walls[i].id = wallId}
  IN IF hits = {} THEN 0 ELSE CHOOSE i \in hits : \A j \in hits : i <= j

IsHorizontal(wall) == wall.orientation = "horizontal"

\* every direction taken for every orientation
anyDirection(wall, direction) == direction \in Directions

isValidDirection(wall, direction) ==
  IF IsHorizontal(wall)
  THEN direction = "up" \/ direction = "down"
  ELSE direction = "left" \/ direction = "right"

moveStep(wall) ==
  IF wall.type = "exterior" THEN EXTERIOR_MOVE_STEP ELSE INTERIOR_MOVE_STEP

Delta(wall, direction) ==
  IF direction = "up" \/ direction = "left" THEN -moveStep(wall)
  ELSE moveStep(wall)

wallPosition(wall) == IF IsHorizontal(wall) THEN wall.start.z ELSE wall.start.x

wallRangeStart(wall) ==
  IF IsHorizontal(wall) THEN Min(wall.start.x, wall.end.x)
  ELSE Min(wall.start.z, wall.end.z)

wallRangeEnd(wall) ==
  IF IsHorizontal(wall) THEN Max(wall.start.x, wall.end.x)
  ELSE Max(wall.start.z, wall.end.z)

\* the coordinate along the wall line / across it
Along(v, isHorizontal) == IF isHorizontal THEN v.x ELSE v.z

Across(v, isHorizontal) == IF isHorizontal THEN v.z ELSE v.x

\* { x: along, z: position } for a horizontal wall, { x: position, z: along } else
PointOn(isHorizontal, along, position) ==
  IF isHorizontal THEN Vertex(along, position) ELSE Vertex(position, along)

\* room.vertices.reduce((sum, v) => sum + v.z, 0), resp. v.x
RECURSIVE SumAcross(_, _)
SumAcross(vs, isHorizontal) ==
  IF vs = <<>> THEN 0
  ELSE Across(vs[1], isHorizontal) + SumAcross(Tail(vs), isHorizontal)

\* roomCenter > wallPosition, with roomCenter = sum / length
roomIsOnPositiveSide(room, wall) ==
  SumAcross(room.vertices, IsHorizontal(wall))
    > wallPosition(wall) * Len(room.vertices)

roomShrinks(room, wall, delta) ==
  LET movingPositive == delta > 0
  IN \/ movingPositive /\ roomIsOnPositiveSide(room, wall)
     \/ ~movingPositive /\ ~roomIsOnPositiveSide(room, wall)

isEdgeOnWallLine(v1, v2, wall) ==
  /\ Abs(Across(v1, IsHorizontal(wall)) - wallPosition(wall)) < EPS
  /\ Abs(Across(v2, IsHorizontal(wall)) - wallPosition(wall)) < EPS

edgeMin(v1, v2, wall) ==
  Min(Along(v1, IsHorizontal(wall)), Along(v2, IsHorizontal(wall)))

edgeMax(v1, v2, wall) ==
  Max(Along(v1, IsHorizontal(wall)), Along(v2, IsHorizontal(wall)))

isFullEdgeMatch(v1, v2, wall) ==
  /\ Abs(edgeMin(v1, v2, wall) - wallRangeStart(wall)) < EPS
  /\ Abs(edgeMax(v1, v2, wall) - wallRangeEnd(wall)) < EPS

\* the scan without the range comparison
hasEdgeOnWallLine(room, wall) ==
  \E i \in 1..Len(room.vertices) :
    isEdgeOnWallLine(room.vertices[i],
                     room.vertices[NextIdx(i, Len(room.vertices))], wall)

\* the shrinking-room scan: some edge on the wall line matches the wall range
hasFullEdgeMatch(room, wall) ==
  \E i \in 1..Len(room.vertices) :
    LET v1 == room.vertices[i]
        v2 == room.vertices[NextIdx(i, Len(room.vertices))]
    IN isEdgeOnWallLine(v1, v2, wall) /\ isFullEdgeMatch(v1, v2, wall)

\* the interior-wall check that returns null before any mutation
Blocked(rs, wall, delta) ==
  /\ wall.type = "interior"
  /\ \E k \in 1..Len(wall.roomIds) :
       LET room == rs[wall.roomIds[k]]
       IN roomShrinks(room, wall, delta) /\ ~hasFullEdgeMatch(room, wall)

\* the edge the mutation loop stops at: on the wall line and overlapping the range
EdgeOverlapsWall(v1, v2, wall) ==
  /\ isEdgeOnWallLine(v1, v2, wall)
  /\ ~(\/ wallRangeEnd(wall) <= edgeMin(v1, v2, wall) + EPS
       \/ wallRangeStart(wall) >= edgeMax(v1, v2, wall) - EPS)

\* index of the first such edge of the room, 0 if there is none
FirstEdgeIndex(room, wall) ==
  LET n == Len(room.vertices)
      hits == {i \in 1..n :
                 EdgeOverlapsWall(room.vertices[i], room.vertices[NextIdx(i, n)], wall)}
  IN IF hits = {} THEN 0 ELSE CHOOSE i \in hits : \A j \in hits : i <= j

\* CASE 1: both vertices of edge i get the new position
FullEdgeMove(vs, i, wall, newPosition) ==
  [j \in 1..Len(vs) |->
     IF j = i \/ j = NextIdx(i, Len(vs))
     THEN IF IsHorizontal(wall) THEN [vs[j] EXCEPT !.z = newPosition]
          ELSE [vs[j] EXCEPT !.x = newPosition]
     ELSE vs[j]]

\* CASE 2, j === i: the vertices that replace edge curr -> next
EdgeReplacement(curr, next, wall, newPosition) ==
  LET h == IsHorizontal(wall)
      pos == wallPosition(wall)
      rs0 == wallRangeStart(wall)
      re0 == wallRangeEnd(wall)
      currCoord == Along(curr, h)
      nextCoord == Along(next, h)
      goingPositive == nextCoord > currCoord
  IN IF goingPositive
     THEN (IF currCoord < rs0 - EPS THEN <<curr, PointOn(h, rs0, pos)>> ELSE <<>>)
          \o <<PointOn(h, rs0, newPosition), PointOn(h, re0, newPosition)>>
          \o (IF nextCoord > re0 + EPS THEN <<PointOn(h, re0, pos)>> ELSE <<>>)
     ELSE (IF currCoord > re0 + EPS THEN <<curr, PointOn(h, re0, pos)>> ELSE <<>>)
          \o <<PointOn(h, re0, newPosition), PointOn(h, rs0, newPosition)>>
          \o (IF nextCoord < rs0 - EPS THEN <<PointOn(h, rs0, pos)>> ELSE <<>>)

\* CASE 2, j !== i: the vertex is kept unless it is the end of the modified
\* edge and lies on the wall line within the wall range
KeptVertex(vs, j, i, wall) ==
  LET curr == vs[j]
      h == IsHorizontal(wall)
      vertOnWallLine == Abs(Across(curr, h) - wallPosition(wall)) < EPS
      vertCoord == Along(curr, h)
      vertInWallRange == /\ vertCoord >= wallRangeStart(wall) - EPS
                         /\ vertCoord <= wallRangeEnd(wall) + EPS
  IN IF j = NextIdx(i, Len(vs)) /\ vertOnWallLine /\ vertInWallRange
     THEN <<>>
     ELSE <<curr>>

RECURSIVE NewVertsFrom(_, _, _, _, _)
NewVertsFrom(vs, j, i, wall, newPosition) ==
  IF j > Len(vs) THEN <<>>
  ELSE (IF j # i THEN KeptVertex(vs, j, i, wall)
        ELSE EdgeReplacement(vs[j], vs[NextIdx(j, Len(vs))], wall, newPosition))
       \o NewVertsFrom(vs, j + 1, i, wall, newPosition)

\* drop a vertex that repeats the one kept before it
RECURSIVE CleanDuplicates(_)
CleanDuplicates(vs) ==
  IF vs = <<>> THEN <<>>
  ELSE LET front == CleanDuplicates(SubSeq(vs, 1, Len(vs) - 1))
           v == vs[Len(vs)]
       IN IF \/ front = <<>>
             \/ Abs(front[Len(front)].x - v.x) > EPS
             \/ Abs(front[Len(front)].z - v.z) > EPS
          THEN Append(front, v)
          ELSE front

\* drop the last vertex when it closes the polygon onto the first
DropClosing(cleaned) ==
  IF /\ Len(cleaned) > 1
     /\ Abs(cleaned[1].x - cleaned[Len(cleaned)].x) < EPS
     /\ Abs(cleaned[1].z - cleaned[Len(cleaned)].z) < EPS
  THEN SubSeq(cleaned, 1, Len(cleaned) - 1)
  ELSE cleaned

PartialEdgeMove(vs, i, wall, newPosition) ==
  DropClosing(CleanDuplicates(NewVertsFrom(vs, 1, i, wall, newPosition)))

\* one iteration of `for (const roomId of wall.roomIds)`: the room after it
\* and whether it set moved
MoveRoom(room, wall, newPosition) ==
  LET vs == room.vertices
      i == FirstEdgeIndex(room, wall)
  IN IF i = 0 THEN [room |-> room, moved |-> FALSE]
     ELSE IF isFullEdgeMatch(vs[i], vs[NextIdx(i, Len(vs))], wall)
     THEN [room |-> [room EXCEPT !.vertices = FullEdgeMove(vs, i, wall, newPosition)],
           moved |-> TRUE]
     ELSE LET cleaned == PartialEdgeMove(vs, i, wall, newPosition)
          IN IF Len(cleaned) >= 3
             THEN [room |-> [room EXCEPT !.vertices = cleaned], moved |-> TRUE]
             ELSE [room |-> room, moved |-> FALSE]

\* the mutation loop over wall.roomIds[k..]
RECURSIVE MoveRooms(_, _, _, _)
MoveRooms(rs, wall, newPosition, k) ==
  IF k > Len(wall.roomIds) THEN [rooms |-> rs, moved |-> FALSE]
  ELSE LET roomId == wall.roomIds[k]
           one == MoveRoom(rs[roomId], wall, newPosition)
           rest == MoveRooms([rs EXCEPT ![roomId] = one.room], wall, newPosition, k + 1)
       IN [rooms |-> rest.rooms, moved |-> one.moved \/ rest.moved]

\* the tail of moveWall: mutate every owning room, then report the new id, or
\* the input id when nothing moved
MoveAndReport(rs, wall, wallId, delta) ==
  LET newPosition == wallPosition(wall) + delta
      done == MoveRooms(rs, wall, newPosition, 1)
  IN IF done.moved
     THEN [rooms |-> done.rooms,
           ret |-> WallId(wall.orientation, newPosition,
                          wallRangeStart(wall), wallRangeEnd(wall))]
     ELSE [rooms |-> done.rooms, ret |-> wallId]

\* the vertices written before the corner check decides
MoveThenCheck(rs, wall, wallId, delta) ==
  IF Blocked(rs, wall, delta)
  THEN [rooms |-> MoveAndReport(rs, wall, wallId, delta).rooms, ret |-> Null]
  ELSE MoveAndReport(rs, wall, wallId, delta)

\* the interior-wall check runs to its end before the mutation loop starts
CheckThenMove(rs, wall, wallId, delta) ==
  IF Blocked(rs, wall, delta) THEN [rooms |-> rs, ret |-> Null]
  ELSE MoveAndReport(rs, wall, wallId, delta)

\* moveWall from the direction check on, for the wall that was found
MoveFound(rs, wall, wallId, direction) ==
  IF ~isValidDirection(wall, direction) THEN [rooms |-> rs, ret |-> Null]
  ELSE CheckThenMove(rs, wall, wallId, Delta(wall, direction))

\* The one element of a singleton set.  A value bound by a set constructor is
\* computed once, so { F(x) : x \in {e} } is F(e) with e evaluated once.
The(S) == CHOOSE x \in S : TRUE

\* moveWall once `walls` holds deriveWalls(state.rooms)
moveWallOn(rs, walls, wallId, direction) ==
  IF FindWall(walls, wallId) = 0 THEN [rooms |-> rs, ret |-> Null]
  ELSE The({MoveFound(rs, wall, wallId, direction) :
              wall \in {walls[FindWall(walls, wallId)]}})

\* actions.moveWall: the room store after the call and the returned id
moveWall(rs, wallId, direction) ==
  The({moveWallOn(rs, walls, wallId, direction) : walls \in {deriveWalls(rs)}})

\* ------------------------------------------------- stores the program reaches

\* the store after the calls moveWall(steps[1]), moveWall(steps[2]), ...
RECURSIVE ApplyMoves(_, _)
ApplyMoves(rs, steps) ==
  IF steps = <<>> THEN rs
  ELSE The({ApplyMoves(next, Tail(steps)) :
              next \in {moveWall(rs, steps[1].id, steps[1].direction).rooms}})

\* n calls that push the wall starting at `position` the same way, each call
\* on the id the previous one returned
Push(orientation, position, from, to, direction, step, n) ==
  [k \in 1..n |->
     [id |-> WallId(orientation, position + (k - 1) * step, from, to),
      direction |-> direction]]

\* Room 2's bottom wall z=9 moved up to z=6: two rectangles sharing x=4.5, z 0..6
TwoRectangles ==
  ApplyMoves(createInitialRooms,
             Push("horizontal", 9000, 4500, 9000, "up", -EXTERIOR_MOVE_STEP, 10))

\* Room 2's lower left wall x=4.5, z 6..9 moved left once: Room 2 reaches under Room 1
Notched ==
  ApplyMoves(createInitialRooms,
             Push("vertical", 4500, 6000, 9000, "left", -EXTERIOR_MOVE_STEP, 1))

\* Room 2's top wall moved up once, then its lower left wall moved left to
\* x=-0.3: Room 2 wraps under the whole of Room 1
Wrapped ==
  ApplyMoves(createInitialRooms,
             Push("horizontal", 0, 4500, 9000, "up", -EXTERIOR_MOVE_STEP, 1)
             \o Push("vertical", 4500, 6000, 9000, "left", -EXTERIOR_MOVE_STEP, 16))

\* Room 2's right wall x=9 moved left to x=5.1: Room 2 is 0.6 m wide
Slim ==
  ApplyMoves(createInitialRooms,
             Push("vertical", 9000, 0, 9000, "left", -EXTERIOR_MOVE_STEP, 13))

\* Room 2's right wall moved left once more, to x=4.8: Room 2 is 0.3 m wide
Narrow ==
  ApplyMoves(Slim,
             Push("vertical", 5100, 0, 9000, "left", -EXTERIOR_MOVE_STEP, 1))

\* the interior wall moved left once: Room 2 gains a step at x=4.4
Stepped ==
  ApplyMoves(createInitialRooms,
             Push("vertical", 4500, 0, 6000, "left", -INTERIOR_MOVE_STEP, 1))

\* Narrow, then Room 2's lower left wall x=4.5, z 6..9 moved right once: the
\* notch is as deep as Room 2 is wide
Spiked ==
  ApplyMoves(Narrow,
             Push("vertical", 4500, 6000, 9000, "right", EXTERIOR_MOVE_STEP, 1))

\* Narrow, then Room 2's right wall x=4.8 moved left once more: Room 2 has no width
Collapsed ==
  ApplyMoves(Narrow,
             Push("vertical", 4800, 0, 9000, "left", -EXTERIOR_MOVE_STEP, 1))

Stores ==
  {createInitialRooms, TwoRectangles, Notched, Wrapped, Slim, Narrow, Stepped,
   Spiked, Collapsed}

\* ------------------------------------------------------------------ actions

\* what the last action was: its name, arguments, result and the store before it
Record(op, wallId, direction, ret, before) ==
  [op |-> op, wallId |-> wallId, direction |-> direction, ret |-> ret,
   rooms |-> before]

WallIds(rs) == {w.id : w \in SeqToSet(deriveWalls(rs))}

\* ids a caller may pass: those of the walls now derived, and those the seed
\* had (stale once the wall has moved)
CallerIds == WallIds(rooms) \cup WallIds(createInitialRooms)

\* ids the pointer can be over
HoverIds == {Null, deriveWalls(rooms)[1].id}

Init ==
  /\ rooms = createInitialRooms
  /\ selectedWallId = Null
  /\ hoveredWallId = Null
  /\ last = Record("init", Null, NoDirection, Null, createInitialRooms)
  /\ moves = 0

selectWall(wallId) ==
  /\ selectedWallId' = wallId
  /\ last' = Record("selectWall", Null, NoDirection, Null, createInitialRooms)
  /\ UNCHANGED <<rooms, hoveredWallId, moves>>

clearSelection ==
  /\ selectedWallId' = Null
  /\ last' = Record("clearSelection", Null, NoDirection, Null, createInitialRooms)
  /\ UNCHANGED <<rooms, hoveredWallId, moves>>

setHoveredWall(wallId) ==
  /\ hoveredWallId' = wallId
  /\ last' = Record("setHoveredWall", Null, NoDirection, Null, createInitialRooms)
  /\ UNCHANGED <<rooms, selectedWallId, moves>>

MoveWall(wallId, direction) ==
  /\ moves < MaxMoves
  /\ \E r \in {moveWall(rooms, wallId, direction)} :
       /\ rooms' = r.rooms
       /\ last' = Record("moveWall", wallId, direction, r.ret, rooms)
  /\ moves' = moves + 1
  /\ UNCHANGED <<selectedWallId, hoveredWallId>>

\* `if (!state.selectedWallId) return;` makes no moveWall call
moveSelectedWall(direction) ==
  IF selectedWallId = Null
  THEN /\ last' = Record("moveSelectedWall", Null, direction, Null, rooms)
       /\ UNCHANGED <<rooms, selectedWallId, hoveredWallId, moves>>
  ELSE /\ moves < MaxMoves
       /\ \E r \in {moveWall(rooms, selectedWallId, direction)} :
            /\ rooms' = r.rooms
            /\ selectedWallId' = IF r.ret # Null /\ r.ret # selectedWallId
                                 THEN r.ret ELSE selectedWallId
            /\ last' = Record("moveSelectedWall", selectedWallId, direction,
                              r.ret, rooms)
       /\ moves' = moves + 1
       /\ UNCHANGED hoveredWallId

\* the selection cleared and the rooms left as they are
resetSelectionOnly ==
  /\ selectedWallId' = Null
  /\ hoveredWallId' = Null
  /\ last' = Record("resetBuilding", Null, NoDirection, Null, rooms)
  /\ moves' = 0
  /\ UNCHANGED rooms

resetBuilding ==
  /\ rooms' = createInitialRooms
  /\ selectedWallId' = Null
  /\ hoveredWallId' = Null
  /\ last' = Record("resetBuilding", Null, NoDirection, Null, rooms)
  /\ moves' = 0

Next ==
  \/ \E wallId \in WallIds(rooms) \cup {Null} : selectWall(wallId)
  \/ clearSelection
  \/ \E wallId \in HoverIds : setHoveredWall(wallId)
  \/ \E wallId \in CallerIds : \E direction \in Directions : MoveWall(wallId, direction)
  \/ \E direction \in Directions : moveSelectedWall(direction)
  \/ resetBuilding

Spec == Init /\ [][Next]_vars

\* the wall mover alone, started in each of the stores above
InitStores ==
  /\ rooms \in Stores
  /\ selectedWallId = Null
  /\ hoveredWallId = Null
  /\ last = Record("init", Null, NoDirection, Null, createInitialRooms)
  /\ moves = 0

NextMove ==
  \E wallId \in CallerIds : \E direction \in Directions : MoveWall(wallId, direction)

SpecStores == InitStores /\ [][NextMove]_vars

\* a wall of one of the stores selected, then moveSelectedWall alone
InitSelected ==
  /\ rooms \in Stores
  /\ selectedWallId \in WallIds(rooms) \cup {Null}
  /\ hoveredWallId = Null
  /\ last = Record("init", Null, NoDirection, Null, createInitialRooms)
  /\ moves = 0

NextSelected == \E direction \in Directions : moveSelectedWall(direction)

SpecSelected == InitSelected /\ [][NextSelected]_vars

\* ------------------------------------------------- vocabulary of the claims

MoveOps == {"moveWall", "moveSelectedWall"}

Walls(rs) == SeqToSet(deriveWalls(rs))

\* the wall the last move call named, as derived from the store it ran on
\* (empty when the id named no derived wall)
LastWalls ==
  IF last.op \in MoveOps
  THEN {w \in Walls(last.rooms) : w.id = last.wallId}
  ELSE {}

RoomSet(w) == SeqToSet(w.roomIds)

\* what a derived wall is, with roomIds as a set
WallView(w) ==
  [type |-> w.type, orientation |-> w.orientation,
   start |-> w.start, end |-> w.end, roomIds |-> RoomSet(w)]

Seg(type, orientation, x1, z1, x2, z2, owners) ==
  [type |-> type, orientation |-> orientation,
   start |-> Vertex(x1, z1), end |-> Vertex(x2, z2), roomIds |-> owners]

\* the room has an edge on the wall's line whose span is exactly the wall's
HasExactEdge(room, wall) ==
  \E i \in 1..Len(room.vertices) :
    LET v1 == room.vertices[i]
        v2 == room.vertices[NextIdx(i, Len(room.vertices))]
        h == IsHorizontal(wall)
    IN /\ Across(v1, h) = wallPosition(wall)
       /\ Across(v2, h) = wallPosition(wall)
       /\ Min(Along(v1, h), Along(v2, h)) = wallRangeStart(wall)
       /\ Max(Along(v1, h), Along(v2, h)) = wallRangeEnd(wall)

\* the room has an edge on the wall's line whose span contains the wall's
HasCoveringEdge(room, wall) ==
  \E i \in 1..Len(room.vertices) :
    LET v1 == room.vertices[i]
        v2 == room.vertices[NextIdx(i, Len(room.vertices))]
        h == IsHorizontal(wall)
    IN /\ Across(v1, h) = wallPosition(wall)
       /\ Across(v2, h) = wallPosition(wall)
       /\ Min(Along(v1, h), Along(v2, h)) <= wallRangeStart(wall)
       /\ Max(Along(v1, h), Along(v2, h)) >= wallRangeEnd(wall)

RoomsCovering(rs, wall) == {r \in RoomIds : HasCoveringEdge(rs[r], wall)}

\* every edge of the room is horizontal or vertical
AxisAligned(room) ==
  \A i \in 1..Len(room.vertices) :
    LET v1 == room.vertices[i]
        v2 == room.vertices[NextIdx(i, Len(room.vertices))]
    IN v1.x = v2.x \/ v1.z = v2.z

\* twice the signed area (shoelace); positive for the seed's winding
RECURSIVE Shoelace(_, _)
Shoelace(vs, i) ==
  IF i > Len(vs) THEN 0
  ELSE LET v1 == vs[i]
           v2 == vs[NextIdx(i, Len(vs))]
       IN (v1.x * v2.z - v2.x * v1.z) + Shoelace(vs, i + 1)

Clockwise(room) == Shoelace(room.vertices, 1) > 0

\* Point-in-polygon by ray casting towards +x.  The point is given in doubled
\* coordinates (px2, pz2), so that midpoints and half-millimetre offsets are
\* integers.
Inside(room, px2, pz2) ==
  LET vs == room.vertices
      crossing == {i \in 1..Len(vs) :
                     LET v1 == vs[i]
                         v2 == vs[NextIdx(i, Len(vs))]
                     IN /\ v1.x = v2.x
                        /\ 2 * v1.x > px2
                        /\ 2 * Min(v1.z, v2.z) <= pz2
                        /\ pz2 < 2 * Max(v1.z, v2.z)}
  IN Cardinality(crossing) % 2 = 1

Consecutive(S) == {p \in S \X S : p[1] < p[2] /\ ~\E c \in S : p[1] < c /\ c < p[2]}

\* no cell of the grid spanned by the rooms' coordinates lies in two rooms
DisjointInteriors(rs) ==
  LET xs == UNION {{rs[r].vertices[i].x : i \in 1..Len(rs[r].vertices)} : r \in RoomIds}
      zs == UNION {{rs[r].vertices[i].z : i \in 1..Len(rs[r].vertices)} : r \in RoomIds}
  IN \A p \in Consecutive(xs) : \A q \in Consecutive(zs) :
       \A r1 \in RoomIds : \A r2 \in RoomIds \ {r1} :
         ~(Inside(rs[r1], p[1] + p[2], q[1] + q[2])
           /\ Inside(rs[r2], p[1] + p[2], q[1] + q[2]))

\* axis-aligned clockwise rooms with disjoint interiors
ValidStore(rs) ==
  /\ \A r \in RoomIds : AxisAligned(rs[r]) /\ Clockwise(rs[r])
  /\ DisjointInteriors(rs)

\* +1 for down/right, -1 for up/left
Sign(direction) == IF direction \in {"down", "right"} THEN 1 ELSE -1

Matches(wall, direction) ==
  IF wall.orientation = "horizontal" THEN direction \in {"up", "down"}
  ELSE direction \in {"left", "right"}

\* the room's interior lies just beyond the middle of the wall on the side
\* the direction points to
InteriorOnSide(room, wall, direction) ==
  LET mid2 == wallRangeStart(wall) + wallRangeEnd(wall)
      off2 == 2 * wallPosition(wall) + Sign(direction)
  IN IF wall.orientation = "vertical" THEN Inside(room, off2, mid2)
     ELSE Inside(room, mid2, off2)

\* ----------------------------------------------------------------- claims

\* C1: deriveWalls on the seed L-shape returns exactly eight walls: x=4.5,
\* z 0..6 interior with {room1, room2}; x=4.5, z 6..9 and x=9, z 0..9 and
\* z=0, x 4.5..9 and z=9, x 4.5..9 exterior with {room2}; x=0, z 0..6 and
\* z=0, x 0..4.5 and z=6, x 0..4.5 exterior with {room1}.
SeedWalls ==
  {Seg("interior", "vertical", 4500, 0, 4500, 6000, {"room1", "room2"}),
   Seg("exterior", "vertical", 4500, 6000, 4500, 9000, {"room2"}),
   Seg("exterior", "vertical", 9000, 0, 9000, 9000, {"room2"}),
   Seg("exterior", "vertical", 0, 0, 0, 6000, {"room1"}),
   Seg("exterior", "horizontal", 0, 0, 4500, 0, {"room1"}),
   Seg("exterior", "horizontal", 0, 6000, 4500, 6000, {"room1"}),
   Seg("exterior", "horizontal", 4500, 0, 9000, 0, {"room2"}),
   Seg("exterior", "horizontal", 4500, 9000, 9000, 9000, {"room2"})}

C1_SeedWalls ==
  rooms = createInitialRooms =>
    /\ Len(deriveWalls(rooms)) = 8
    /\ {WallView(w) : w \in Walls(rooms)} = SeedWalls

\* the seed store derived again after a move and a reset
C1_Witness ==
  /\ rooms = createInitialRooms
  /\ last.op = "resetBuilding"
  /\ last.rooms # createInitialRooms
  /\ Len(deriveWalls(rooms)) = 8

\* C2: in every state reachable by moveWall calls, every interior wall has
\* exactly 2 distinct roomIds and every exterior wall exactly 1.
C2_RoomCounts ==
  \A w \in Walls(rooms) :
    /\ w.type = "interior" => Cardinality(RoomSet(w)) = 2
    /\ w.type = "exterior" => Cardinality(RoomSet(w)) = 1

\* C3: for clockwise axis-aligned rooms with disjoint interiors a sub-segment
\* is interior exactly when two different rooms each have an edge covering
\* it, and exterior when only one room covers it, on horizontal lines as on
\* vertical ones.
C3_InteriorIffTwoRooms ==
  ValidStore(rooms) =>
    \A w \in Walls(rooms) :
      /\ w.type = "interior" <=> Cardinality(RoomsCovering(rooms, w)) >= 2
      /\ w.type = "exterior" <=> Cardinality(RoomsCovering(rooms, w)) = 1

\* C4: on the seed L-shape, moveWall on the interior wall x=4.5, z 0..6 with
\* direction right returns null and leaves every room unchanged.
SeedInteriorId == WallId("vertical", 4500, 0, 6000)

C4_Case ==
  /\ last.op \in MoveOps
  /\ last.rooms = createInitialRooms
  /\ last.wallId = SeedInteriorId
  /\ last.direction = "right"

C5_ShrinkingPartialBlocks ==
  \A w \in LastWalls :
    (/\ w.type = "interior"
     /\ Matches(w, last.direction)
     /\ \E r \in RoomSet(w) :
          /\ InteriorOnSide(last.rooms[r], w, last.direction)
          /\ ~HasExactEdge(last.rooms[r], w))
    => last.ret = Null /\ rooms = last.rooms

\* C6: if every owning room of an interior wall on the side the wall moves
\* into has an edge exactly matching the wall, a move in a direction matching
\* the orientation is not blocked, whatever the rooms on the expanding side
\* look like.
C6_ExactShrinkingSideMoves ==
  \A w \in LastWalls :
    (/\ w.type = "interior"
     /\ Matches(w, last.direction)
     /\ \A r \in RoomSet(w) :
          InteriorOnSide(last.rooms[r], w, last.direction)
            => HasExactEdge(last.rooms[r], w))
    => last.ret # Null

\* C7: an interior wall moves only if all rooms in its roomIds have an edge
\* exactly matching it; on the seed, moving the interior wall left is blocked.
C7_AllRoomsNeedExactEdge ==
  \A w \in LastWalls :
    (/\ w.type = "interior"
     /\ \E r \in RoomSet(w) : ~HasExactEdge(last.rooms[r], w))
    => last.ret = Null /\ rooms = last.rooms

\* C8: moveWall accepts up/down only for a horizontal wall and left/right
\* only for a vertical wall; for any other (wall, direction) pair it returns
\* null and changes no room.
C8_InvalidDirectionRejected ==
  \A w \in LastWalls :
    ~Matches(w, last.direction) => last.ret = Null /\ rooms = last.rooms

\* a derived wall was given a direction across its orientation
C8_Witness ==
  \E w \in LastWalls :
    /\ w.orientation = "horizontal"
    /\ last.direction = "left"
    /\ last.ret = Null
    /\ rooms = last.rooms

StepOf(type) == IF type = "exterior" THEN 300 ELSE 100

\* the wall shifted across its line to `position`
Shifted(w, position) ==
  IF w.orientation = "horizontal"
  THEN [w EXCEPT !.start.z = position, !.end.z = position]
  ELSE [w EXCEPT !.start.x = position, !.end.x = position]

C10_FullEdgeMove ==
  \A w \in LastWalls :
    (/\ last.ret # Null
     /\ last.ret # last.wallId
     /\ \A r \in RoomSet(w) : HasExactEdge(last.rooms[r], w))
    => LET to == wallPosition(w) + Sign(last.direction) * StepOf(w.type)
       IN /\ \A r \in RoomSet(w) :
               /\ Len(rooms[r].vertices) = Len(last.rooms[r].vertices)
               /\ HasExactEdge(rooms[r], Shifted(w, to))
          /\ \E n \in Walls(rooms) :
               /\ n.orientation = w.orientation
               /\ n.start = Shifted(w, to).start
               /\ n.end = Shifted(w, to).end

\* C11: moveWall changes only rooms listed in the moved wall's roomIds: every
\* other room's vertex list is the same before and after the call, and in a
\* full-edge move the owning room's vertices other than the two endpoints of
\* the matched edge keep both coordinates.
ExactEdgeAt(room, i, wall) ==
  LET v1 == room.vertices[i]
      v2 == room.vertices[NextIdx(i, Len(room.vertices))]
      h == IsHorizontal(wall)
  IN /\ Across(v1, h) = wallPosition(wall)
     /\ Across(v2, h) = wallPosition(wall)
     /\ Min(Along(v1, h), Along(v2, h)) = wallRangeStart(wall)
     /\ Max(Along(v1, h), Along(v2, h)) = wallRangeEnd(wall)

Succeeded == last.op \in MoveOps /\ last.ret # Null /\ last.ret # last.wallId

C11_OnlyOwningRoomsChange ==
  /\ last.op \in MoveOps /\ LastWalls = {} => rooms = last.rooms
  /\ \A w \in LastWalls :
       /\ \A r \in RoomIds \ RoomSet(w) :
            rooms[r].vertices = last.rooms[r].vertices
       /\ Succeeded =>
            \A r \in RoomSet(w) :
              HasExactEdge(last.rooms[r], w) =>
                /\ Len(rooms[r].vertices) = Len(last.rooms[r].vertices)
                /\ \E i \in 1..Len(last.rooms[r].vertices) :
                     /\ ExactEdgeAt(last.rooms[r], i, w)
                     /\ \A j \in 1..Len(last.rooms[r].vertices) :
                          j \notin {i, NextIdx(i, Len(last.rooms[r].vertices))}
                            => rooms[r].vertices[j] = last.rooms[r].vertices[j]

\* C12: after a successful full-edge move of a wall of a room, the walls
\* derived from that room's two adjoining perpendicular edges end exactly at
\* the moved wall's new coordinate: at each corner of the moved edge a derived
\* wall of the room on the adjoining edge ends at the corner (no gap) and no
\* derived wall of the room on that line runs through the corner (no overhang);
\* an adjoining edge that the move shortened to length zero derives no wall.
PrevIdx(i, n) == IF i = 1 THEN n ELSE i - 1

\* point p lies on the axis-aligned segment from a to b
OnSegment(p, a, b) ==
  /\ Min(a.x, b.x) <= p.x /\ p.x <= Max(a.x, b.x)
  /\ Min(a.z, b.z) <= p.z /\ p.z <= Max(a.z, b.z)

\* the edge from `other` to `corner` of room r is met at `corner` by a derived
\* wall of r lying on the edge, and no derived wall of r on the edge's line
\* has `corner` strictly inside it
CornerJoined(rs, r, other, corner) ==
  LET h == other.z = corner.z
  IN /\ \E n \in Walls(rs) :
          /\ r \in RoomSet(n)
          /\ IsHorizontal(n) = h
          /\ OnSegment(n.start, other, corner)
          /\ OnSegment(n.end, other, corner)
          /\ (n.start = corner \/ n.end = corner)
     /\ ~\E n \in Walls(rs) :
          /\ r \in RoomSet(n)
          /\ IsHorizontal(n) = h
          /\ Across(n.start, h) = Across(corner, h)
          /\ Along(n.start, h) < Along(corner, h)
          /\ Along(corner, h) < Along(n.end, h)

FullEdgeMoved(w) ==
  Succeeded /\ \A r \in RoomSet(w) : HasExactEdge(last.rooms[r], w)

C13_ReturnedIdIsDerived ==
  \A w \in LastWalls :
    Succeeded =>
      LET to == wallPosition(w) + Sign(last.direction) * StepOf(w.type)
      IN \E n \in Walls(rooms) :
           /\ n.id = last.ret
           /\ n.orientation = w.orientation
           /\ n.start = Shifted(w, to).start
           /\ n.end = Shifted(w, to).end

\* C14: moveSelectedWall does nothing when selectedWallId is null; otherwise
\* it calls moveWall on selectedWallId, sets selectedWallId to the returned id
\* when the move succeeded and leaves it unchanged when moveWall failed; so,
\* starting from a selection of a currently derived wall, after any sequence
\* of moveSelectedWall calls selectedWallId is the id of a currently derived
\* wall.
C14_SelectionFollowsMove ==
  /\ last.op = "moveSelectedWall" =>
       /\ last.wallId = Null => rooms = last.rooms /\ selectedWallId = Null
       /\ last.wallId # Null =>
            selectedWallId = IF last.ret # Null THEN last.ret ELSE last.wallId
  /\ selectedWallId # Null => selectedWallId \in WallIds(rooms)

\* C15: after any sequence of selectWall, setHoveredWall, moveWall and
\* moveSelectedWall calls, resetBuilding leaves the state equal to the initial
\* state: the room store is exactly the seed L-shape and selectedWallId and
\* hoveredWallId are null.
C15_ResetRestoresInit ==
  last.op = "resetBuilding" =>
    /\ rooms = createInitialRooms
    /\ rooms["room1"].vertices =
         <<Vertex(0, 0), Vertex(4500, 0), Vertex(4500, 6000), Vertex(0, 6000)>>
    /\ selectedWallId = Null
    /\ hoveredWallId = Null

\* a reset of a store that a move had changed
C15_Witness ==
  /\ last.op = "resetBuilding"
  /\ last.rooms["room1"] # createInitialRooms["room1"]
  /\ rooms["room1"] = createInitialRooms["room1"]
  /\ selectedWallId = Null

\* C16: the initial room store, and the store after resetBuilding, contains
\* exactly two rooms, both clockwise: Room 1 with vertices (0,0), (4.5,0),
\* (4.5,6), (0,6) and Room 2 as the four-vertex rectangle (4.5,0), (9,0),
\* (9,9), (4.5,9).
Fresh == last.op \in {"init", "resetBuilding"}

Room1Seed ==
  /\ DOMAIN rooms = {"room1", "room2"}
  /\ rooms["room1"].vertices =
       <<Vertex(0, 0), Vertex(4500, 0), Vertex(4500, 6000), Vertex(0, 6000)>>
  /\ Clockwise(rooms["room1"])
  /\ Clockwise(rooms["room2"])

WellFormed(rs) ==
  \A r \in RoomIds : Len(rs[r].vertices) >= 3 /\ AxisAligned(rs[r])

C17_RoomsStayAxisAligned ==
  (Succeeded /\ WellFormed(last.rooms) /\ \A r \in RoomIds : Clockwise(last.rooms[r]))
    => WellFormed(rooms)

\* C18: the set of walls returned by deriveWalls (ids, types, orientations,
\* endpoints, roomIds as sets) is the same when any room's vertex list is
\* rotated to start at a different index and when the rooms are supplied in a
\* different map iteration order.
Rotate(s, k) == [i \in 1..Len(s) |-> s[((i + k - 1) % Len(s)) + 1]]

\* the store with room r's vertex list started k places further on
Rotated(rs, r, k) == [rs EXCEPT ![r].vertices = Rotate(rs[r].vertices, k)]

Reversed(s) == [i \in 1..Len(s) |-> s[Len(s) + 1 - i]]

RoomOrders == {RoomOrder, Reversed(RoomOrder)}

IdView(w) ==
  [id |-> w.id, type |-> w.type, orientation |-> w.orientation,
   start |-> w.start, end |-> w.end, roomIds |-> RoomSet(w)]

WallViews(walls) == {IdView(w) : w \in SeqToSet(walls)}

C18_RotationAndOrderInvariant ==
  \A derived \in {WallViews(deriveWalls(rooms))} :
    \A order \in RoomOrders :
      \A r \in RoomIds : \A k \in 0..(Len(rooms[r].vertices) - 1) :
        WallViews(deriveWallsIn(Rotated(rooms, r, k), order)) = derived

\* a moved store with a six-vertex Room 2, derived with Room 2 first and its
\* vertex list started three places further on
C18_Witness ==
  /\ Succeeded
  /\ Len(rooms["room2"].vertices) = 6
  /\ Rotated(rooms, "room2", 3) # rooms
  /\ WallViews(deriveWallsIn(Rotated(rooms, "room2", 3), Reversed(RoomOrder)))
       = WallViews(deriveWalls(rooms))
  /\ deriveWallsIn(Rotated(rooms, "room2", 3), Reversed(RoomOrder))
       # deriveWalls(rooms)

\* C19: moveWall is all-or-nothing over the owning rooms: whenever it returns
\* an id different from its input, every room in the moved wall's roomIds has,
\* after the call, an edge on the line oldPosition + delta covering the wall's
\* whole span and no longer has an edge on the old line covering that span.
C19_AllOwningRoomsMoved ==
  \A w \in LastWalls :
    Succeeded =>
      LET to == wallPosition(w) + Sign(last.direction) * StepOf(w.type)
      IN \A r \in RoomSet(w) :
           /\ HasCoveringEdge(rooms[r], Shifted(w, to))
           /\ ~HasCoveringEdge(rooms[r], w)

\* C20: when the wall's span is a strict sub-range of a room's edge, moveWall
\* replaces that edge by the unmoved leading part on the original line with a
\* corner vertex at the span boundary (if the edge starts before the span),
\* the moved segment at oldPosition + delta spanning exactly the wall's span,
\* and a corner vertex at the other span boundary with the unmoved trailing
\* part (if the edge extends past the span), in the edge's traversal order;
\* the room gains 2 vertices when the span touches one end of the edge and 4
\* when it is strictly inside, and all other vertices are unchanged.

\* edge i of the room lies on the wall's line and its span contains the
\* wall's span without being equal to it
StrictlyCovers(room, i, wall) ==
  LET v1 == room.vertices[i]
      v2 == room.vertices[NextIdx(i, Len(room.vertices))]
      h == IsHorizontal(wall)
      lo == Min(Along(v1, h), Along(v2, h))
      hi == Max(Along(v1, h), Along(v2, h))
  IN /\ Across(v1, h) = wallPosition(wall)
     /\ Across(v2, h) = wallPosition(wall)
     /\ lo <= wallRangeStart(wall)
     /\ hi >= wallRangeEnd(wall)
     /\ (lo < wallRangeStart(wall) \/ hi > wallRangeEnd(wall))

\* the span boundary the edge from v1 to v2 meets first, and the one it meets last
FirstBoundary(v1, v2, wall) ==
  IF Along(v1, IsHorizontal(wall)) <= Along(v2, IsHorizontal(wall))
  THEN wallRangeStart(wall) ELSE wallRangeEnd(wall)

LastBoundary(v1, v2, wall) ==
  IF Along(v1, IsHorizontal(wall)) <= Along(v2, IsHorizontal(wall))
  THEN wallRangeEnd(wall) ELSE wallRangeStart(wall)

HasLeadingPart(v1, v2, wall) ==
  Along(v1, IsHorizontal(wall)) # FirstBoundary(v1, v2, wall)

HasTrailingPart(v1, v2, wall) ==
  Along(v2, IsHorizontal(wall)) # LastBoundary(v1, v2, wall)

\* what stands in the place of vertex j when edge i is stepped to `to`
SteppedAt(vs, j, i, wall, to) ==
  LET v1 == vs[i]
      v2 == vs[NextIdx(i, Len(vs))]
      h == IsHorizontal(wall)
      pos == wallPosition(wall)
      a == FirstBoundary(v1, v2, wall)
      b == LastBoundary(v1, v2, wall)
  IN IF j = i
     THEN (IF HasLeadingPart(v1, v2, wall) THEN <<v1, PointOn(h, a, pos)>> ELSE <<>>)
          \o <<PointOn(h, a, to), PointOn(h, b, to)>>
          \o (IF HasTrailingPart(v1, v2, wall) THEN <<PointOn(h, b, pos)>> ELSE <<>>)
     ELSE IF j = NextIdx(i, Len(vs)) /\ ~HasTrailingPart(v1, v2, wall)
     THEN <<>>
     ELSE <<vs[j]>>

RECURSIVE SteppedFrom(_, _, _, _, _)
SteppedFrom(vs, j, i, wall, to) ==
  IF j > Len(vs) THEN <<>>
  ELSE SteppedAt(vs, j, i, wall, to) \o SteppedFrom(vs, j + 1, i, wall, to)

Gain(v1, v2, wall) ==
  IF HasLeadingPart(v1, v2, wall) /\ HasTrailingPart(v1, v2, wall) THEN 4 ELSE 2

C20_StepInsertion ==
  \A w \in LastWalls :
    Succeeded =>
      LET to == wallPosition(w) + Sign(last.direction) * StepOf(w.type)
      IN \A r \in RoomSet(w) :
           LET vs == last.rooms[r].vertices
           IN \A i \in 1..Len(vs) :
                StrictlyCovers(last.rooms[r], i, w) =>
                  /\ rooms[r].vertices = SteppedFrom(vs, 1, i, w, to)
                  /\ Len(rooms[r].vertices)
                       = Len(vs) + Gain(vs[i], vs[NextIdx(i, Len(vs))], w)

\* C21: step insertion is performed only when the moved wall is exterior: a
\* successful move of an interior wall never changes the number of vertices
\* of any room.
C21_InteriorMoveKeepsVertexCounts ==
  \A w \in LastWalls :
    (Succeeded /\ w.type = "interior") =>
      \A r \in RoomIds : Len(rooms[r].vertices) = Len(last.rooms[r].vertices)

\* C22: after any sequence of successful moveWall calls from the seed, every
\* room's vertex list is still in clockwise order: its signed (shoelace) area
\* is non-zero and has the sign it has in the seed.
AllClockwise(rs) == \A r \in RoomIds : Clockwise(rs[r])

C22_RoomsStayClockwise ==
  (Succeeded /\ AllClockwise(last.rooms)) => AllClockwise(rooms)

\* two axis-aligned segments a1-a2 and b1-b2 share at least one point
Touch(a1, a2, b1, b2) ==
  /\ Max(Min(a1.x, a2.x), Min(b1.x, b2.x)) <= Min(Max(a1.x, a2.x), Max(b1.x, b2.x))
  /\ Max(Min(a1.z, a2.z), Min(b1.z, b2.z)) <= Min(Max(a1.z, a2.z), Max(b1.z, b2.z))

\* a simple closed polygon: no zero-length edge, and no two non-adjacent
\* edges touch or cross
Simple(room) ==
  LET vs == room.vertices
      n  == Len(vs)
  IN  /\ n >= 3
      /\ \A i \in 1..n : vs[i] # vs[NextIdx(i, n)]
      /\ \A i \in 1..n : \A j \in 1..n :
           (j # i /\ j # NextIdx(i, n) /\ i # NextIdx(j, n)) =>
             ~Touch(vs[i], vs[NextIdx(i, n)], vs[j], vs[NextIdx(j, n)])

AllSimple(rs) == \A r \in RoomIds : Simple(rs[r])

\* C23: every state reached by moveWall keeps every room a simple closed
\* polygon: a successful move on a store whose rooms are all simple leaves
\* them all simple (no equal consecutive vertices, no two non-adjacent edges
\* touching or crossing).
C23_RoomsStaySimple ==
  (Succeeded /\ AllSimple(last.rooms)) => AllSimple(rooms)

\* the extent of a room along x and along z
ExtentX(room) ==
  LET xs == {room.vertices[i].x : i \in 1..Len(room.vertices)}
  IN  (CHOOSE a \in xs : \A b \in xs : a >= b) - (CHOOSE a \in xs : \A b \in xs : a <= b)

ExtentZ(room) ==
  LET zs == {room.vertices[i].z : i \in 1..Len(room.vertices)}
  IN  (CHOOSE a \in zs : \A b \in zs : a >= b) - (CHOOSE a \in zs : \A b \in zs : a <= b)

LargeEnough(rs) ==
  \A r \in RoomIds : ExtentX(rs[r]) >= MIN_ROOM_SIZE /\ ExtentZ(rs[r]) >= MIN_ROOM_SIZE

\* C24: no move makes a room narrower than MIN_ROOM_SIZE: after a moveWall
\* call on a store whose rooms all extend at least MIN_ROOM_SIZE along x and
\* along z, they still all do.
C24_MinRoomSizeKept ==
  (last.op \in MoveOps /\ LargeEnough(last.rooms)) => LargeEnough(rooms)

\* C25: after a successful moveWall the input id is stale: no wall derived
\* from the mutated store has it, and a second moveWall with the old id, in
\* any direction, returns null and leaves the store as it is.
C25_OldIdIsStale ==
  Succeeded =>
    /\ last.wallId \notin {w.id : w \in Walls(rooms)}
    /\ \A d \in Directions :
         \A r \in {moveWall(rooms, last.wallId, d)} :
           r.ret = Null /\ r.rooms = rooms

\* the walls derived from the store on the line of one orientation and position
WallsOnLine(walls, orientation, position) ==
  {w \in walls : w.orientation = orientation /\ wallPosition(w) = position}

\* every point of the room's edge i lies on a wall of `walls` listing the room
EdgeTiled(walls, r, room, i) ==
  LET v1 == room.vertices[i]
      v2 == room.vertices[NextIdx(i, Len(room.vertices))]
      h  == (v1.z = v2.z)
      lo == Min(Along(v1, h), Along(v2, h))
      hi == Max(Along(v1, h), Along(v2, h))
      line == {w \in WallsOnLine(walls, IF h THEN "horizontal" ELSE "vertical",
                                 Across(v1, h)) : r \in RoomSet(w)}
      cuts == {lo, hi} \cup {c \in {wallRangeStart(w) : w \in line}
                                   \cup {wallRangeEnd(w) : w \in line} :
                               lo < c /\ c < hi}
  IN  \A p \in Consecutive(cuts) :
        \E w \in line : wallRangeStart(w) <= p[1] /\ p[2] <= wallRangeEnd(w)

\* C26: on each line the derived walls tile the room edges exactly: every
\* wall's segment lies within an edge of each room it lists, two walls on one
\* line do not overlap, and every point of every room edge of non-zero
\* length lies on a derived wall that lists the room.
C26_WallsTileEdges ==
  \A walls \in {Walls(rooms)} :
    /\ \A w \in walls : \A r \in RoomSet(w) : HasCoveringEdge(rooms[r], w)
    /\ \A w1 \in walls : \A w2 \in WallsOnLine(walls, w1.orientation, wallPosition(w1)) \ {w1} :
         wallRangeEnd(w1) <= wallRangeStart(w2) \/ wallRangeEnd(w2) <= wallRangeStart(w1)
    /\ \A r \in RoomIds : \A i \in 1..Len(rooms[r].vertices) :
         rooms[r].vertices[i] # rooms[r].vertices[NextIdx(i, Len(rooms[r].vertices))]
           => EdgeTiled(walls, r, rooms[r], i)

\* C27: an exterior wall is never blocked: moveWall on any derived exterior
\* wall, in either direction matching its orientation, returns a non-null id
\* different from the input and changes the room store.
C27_ExteriorNeverBlocked ==
  \A w \in Walls(rooms) : \A d \in Directions :
    (w.type = "exterior" /\ Matches(w, d)) =>
      \A r \in {moveWall(rooms, w.id, d)} :
        r.ret # Null /\ r.ret # w.id /\ r.rooms # rooms

\* the rooms of rs occupy the same regions as the rooms of qs: every cell of
\* the grid spanned by both stores' coordinates lies in a room of rs exactly
\* when it lies in that room of qs
SameRegions(rs, qs) ==
  LET xs == UNION {{s[r].vertices[i].x : i \in 1..Len(s[r].vertices)} :
                     s \in {rs, qs}, r \in RoomIds}
      zs == UNION {{s[r].vertices[i].z : i \in 1..Len(s[r].vertices)} :
                     s \in {rs, qs}, r \in RoomIds}
  IN  \A p \in Consecutive(xs) : \A q \in Consecutive(zs) : \A r \in RoomIds :
        Inside(rs[r], p[1] + p[2], q[1] + q[2])
          <=> Inside(qs[r], p[1] + p[2], q[1] + q[2])

\* C28: blocking depends only on the regions the rooms occupy: whenever Room 1
\* and Room 2 occupy the regions they occupy in the seed, however their
\* vertex lists are written, moveWall on the interior wall x=4.5, z 0..6 with
\* direction right returns null and changes nothing.
C28_BlockingDependsOnRegions ==
  SameRegions(rooms, createInitialRooms) =>
    \A r \in {moveWall(rooms, SeedInteriorId, "right")} :
      r.ret = Null /\ r.rooms = rooms

Opposite(direction) ==
  CASE direction = "left" -> "right"
    [] direction = "right" -> "left"
    [] direction = "up" -> "down"
    [] direction = "down" -> "up"

\* the derived walls as a set of (id, type, roomIds as a set)
DerivedView(rs) == {[id |-> w.id, type |-> w.type, roomIds |-> RoomSet(w)] : w \in Walls(rs)}

\* C29: a successful moveWall followed by moveWall on the returned id in the
\* opposite direction succeeds and restores the derived walls of the store
\* the first move ran on (same ids, types and roomIds); when every owning
\* room had an edge spanning exactly the wall before the first move and
\* again before the second, the vertex lists are restored exactly.
C29_RoundTripRestores ==
  Succeeded =>
    \A back \in {moveWall(rooms, last.ret, Opposite(last.direction))} :
      /\ back.ret # Null /\ back.ret # last.ret
      /\ DerivedView(back.rooms) = DerivedView(last.rooms)
      /\ \A w \in LastWalls : \A v \in {x \in Walls(rooms) : x.id = last.ret} :
           ((\A r \in RoomSet(w) : HasExactEdge(last.rooms[r], w))
            /\ (\A r \in RoomSet(v) : HasExactEdge(rooms[r], v)))
             => back.rooms = last.rooms

\* C30: the walls returned by one call of deriveWalls have pairwise distinct
\* ids: two entries of the returned list with the same id are the same entry,
\* and a wall's id determines its orientation, fixed coordinate and span.
C30_DistinctWallIds ==
  \A walls \in {deriveWalls(rooms)} :
    \A i \in 1..Len(walls) : \A j \in 1..Len(walls) :
      walls[i].id = walls[j].id =>
        /\ i = j
        /\ walls[i].orientation = walls[j].orientation
        /\ walls[i].start = walls[j].start
        /\ walls[i].end = walls[j].end

\* after a successful move, two derived walls lie on one line and differ only
\* in their span, and two lie on different lines with the same span
C30_Witness ==
  /\ Succeeded
  /\ \E w1 \in Walls(rooms) : \E w2 \in Walls(rooms) :
       /\ w1.orientation = w2.orientation
       /\ wallPosition(w1) = wallPosition(w2)
       /\ wallRangeStart(w1) # wallRangeStart(w2)
  /\ \E w1 \in Walls(rooms) : \E w2 \in Walls(rooms) :
       /\ w1.orientation = w2.orientation
       /\ wallPosition(w1) # wallPosition(w2)
       /\ wallRangeStart(w1) = wallRangeStart(w2)
       /\ wallRangeEnd(w1) = wallRangeEnd(w2)

====
